---- MODULE Spec2Model ----
(***************************************************************************)
(* Model of the answer-synthesis engine (src/synthesizer.py) as it is      *)
(* called by the /api/query handler (src/api.py).                          *)
(*                                                                         *)
(* Texts.  A Python str is modelled as a sequence of segments.  A segment  *)
(* [s, n, full] is the first n characters of a piece of text s whose whole *)
(* length is full: either one of the literal strings the code tests for or *)
(* emits (n = full unless a slice cut it), or a run of n filler characters *)
(* (s = "~") that match none of the literals.  The empty str is << >>.     *)
(* A Python dict output is modelled by its key set and its number of keys. *)
(***************************************************************************)
EXTENDS Integers, Sequences, FiniteSets, TLC

VARIABLES
  user_query,         \* request.query
  execution_results,  \* the orchestrator's result records
  pc,                 \* "request", "synthesized", "responded" or "http_500"
  outputs,            \* synthesize_answer's local dict of successful outputs
  final_answer,       \* what synthesize_answer returned
  summary             \* what create_executive_summary returned

vars == <<user_query, execution_results, pc, outputs, final_answer, summary>>

(***************************************************************************)
(* Lengths (Python len) of the string literals of src/synthesizer.py and   *)
(* of the marker strings that occur in tool outputs.                       *)
(***************************************************************************)
LitLen ==
     "Error:" :> 6 @@ "error:" :> 6
  @@ "I'm sorry" :> 9 @@ "i'm sorry" :> 9
  @@ "successfully created" :> 20 @@ "Successfully Created" :> 20
  @@ "generated" :> 9 @@ "Generated" :> 9
  @@ ".png" :> 4 @@ "Chart" :> 5 @@ "chart" :> 5
  @@ ".pdf" :> 4 @@ "PDF" :> 3 @@ "pdf" :> 3
  @@ "Found" :> 5 @@ "found" :> 5 @@ "papers" :> 6
  @@ "Sample Paper" :> 12 @@ "sample paper" :> 12
  @@ "No recent news" :> 14 @@ "no recent news" :> 14
  @@ "**" :> 2 @@ "Article" :> 7 @@ "article" :> 7
  @@ "Title" :> 5 @@ "title" :> 5
  @@ " " :> 1 @@ "\n" :> 1 @@ "\n\n" :> 2
  @@ "quantum computing" :> 17 @@ "llm safety" :> 10
  \* literals emitted by synthesize_answer
  @@ "[x] **No results were generated.** The query could not be processed successfully." :> 79
  @@ "# [book] Answer to: " :> 15
  @@ "---\n\n" :> 5
  @@ "## [books] Factual Sources Used (Verify Claims Above)\n\n" :> 49
  @@ "*The AI answer above is grounded in the following factual sources. Cross-reference to verify accuracy:*\n\n" :> 105
  @@ "### [microscope] Academic Papers Found\n\n" :> 29
  @@ "### [book] Wikipedia Background\n\n" :> 28
  @@ "...\n\n" :> 5
  @@ "<details><summary>Show full Wikipedia content</summary>\n\n" :> 57
  @@ "\n\n</details>\n\n" :> 14
  @@ "### [newspaper] Recent News Articles\n\n" :> 28
  @@ "*Note: This answer is based on the LLM's general knowledge. No specific research papers or news articles were retrieved for verification.*\n\n" :> 140
  @@ "## [chart] Generated Resources\n\n" :> 26
  @@ "[chart-up] " :> 2 @@ "[page] " :> 2
  @@ "[check] **Analysis Complete** | Comprehensive answer generated using AI with supporting research from multiple sources.\n" :> 114
  @@ "## [bulb] Quick Answer\n\n" :> 19
  @@ "## [books] Background\n\n" :> 17
  @@ "## [microscope] Academic Research\n\n" :> 24
  @@ "## [newspaper] Recent Developments\n\n" :> 26
  @@ "## [thought] Sentiment Analysis\n\n" :> 25
  @@ "## [target] Key Insights\n\n" :> 19
  @@ "[check] **Analysis Complete** | Information gathered from multiple sources and synthesized for your query.\n" :> 101
  \* literals emitted by the section synthesizers
  @@ "<demonstration-mode paragraph, before the query>" :> 45
  @@ "<demonstration-mode paragraph, after the query>" :> 655
  @@ "Found relevant academic research on **" :> 38
  @@ "**:\n\n" :> 5
  @@ "- " :> 2
  @@ "No recent news articles were found specifically about " :> 54
  @@ ". This could mean:\n- The topic is highly specialized\n- No major news coverage in recent days\n- Try a broader search term for more results" :> 137
  @@ "Recent news coverage on **" :> 26
  @@ "[tick] **Foundational knowledge** about " :> 35
  @@ " has been retrieved from Wikipedia" :> 34
  @@ "[tick] **Academic research papers** have been identified and summarized" :> 66
  @@ "[tick] **Current news** and recent developments have been analyzed" :> 61
  @@ "[tick] **Sentiment analysis** provides insights into public perception" :> 65
  @@ "[tick] **Direct answer** has been generated based on available knowledge" :> 67
  @@ "Based on the available information, here's what we know about **" :> 64
  @@ "**: The system has gathered relevant data from multiple sources to provide you with a comprehensive overview." :> 109
  @@ "**Information Sources:**\n" :> 25
  @@ "\n\nThis comprehensive analysis of **" :> 35
  @@ "** combines information from multiple authoritative sources to give you a complete picture." :> 91
  \* literals emitted by create_executive_summary
  @@ "No results could be generated for this query." :> 45
  @@ "Regarding **" :> 12
  @@ "**: " :> 4
  @@ "A direct answer has been provided based on available knowledge. " :> 64
  @@ "Background information has been retrieved from Wikipedia. " :> 58
  @@ "Academic research papers have been identified and summarized. " :> 62
  @@ "Recent news articles have been analyzed. " :> 41
  @@ "Total of " :> 9
  @@ " information sources consulted." :> 31

\* A str literal of the source, as a one-segment text.
Lit(s) == << [s |-> s, n |-> LitLen[s], full |-> LitLen[s]] >>

\* A run of k filler characters (k >= 1).
Fill(k) == << [s |-> "~", n |-> k, full |-> k] >>

\* str(k) for a small natural number k, as a text of one segment.
DecimalStr(k) == << [s |-> ToString(k), n |-> IF k < 10 THEN 1 ELSE 2,
                     full |-> IF k < 10 THEN 1 ELSE 2] >>

\* Python len() of a str.
RECURSIVE StrLen(_)
StrLen(t) == IF t = << >> THEN 0 ELSE t[1].n + StrLen(Tail(t))

\* A segment that holds a whole literal (no slice has cut it).
Whole(seg) == seg.n = seg.full

\* Python t.startswith(lit) for a literal of the table.
StartsWith(t, lit) == t # << >> /\ t[1].s = lit /\ Whole(t[1])

\* Python `pat in t` for a pattern given as a sequence of literals.
Contains(t, pat) ==
  \E i \in 1..Len(t) :
     /\ i + Len(pat) - 1 <= Len(t)
     /\ \A j \in 1..Len(pat) : t[i + j - 1].s = pat[j] /\ Whole(t[i + j - 1])

\* Python `lit in t` for one literal.
In(lit, t) == Contains(t, <<lit>>)

\* Python str.lower() on the literals that have upper-case letters.
LowerLit(s) ==
  CASE s = "Error:" -> "error:"
    [] s = "I'm sorry" -> "i'm sorry"
    [] s = "Successfully Created" -> "successfully created"
    [] s = "Generated" -> "generated"
    [] s = "Chart" -> "chart"
    [] s = "PDF" -> "pdf"
    [] s = "Found" -> "found"
    [] s = "Sample Paper" -> "sample paper"
    [] s = "No recent news" -> "no recent news"
    [] s = "Article" -> "article"
    [] s = "Title" -> "title"
    [] OTHER -> s

Lower(t) == [i \in 1..Len(t) |-> [t[i] EXCEPT !.s = LowerLit(t[i].s)]]

\* Python t[:k]: the first k characters.  A cut filler run is a shorter run;
\* a cut literal is no longer that literal.
RECURSIVE Slice(_, _)
Slice(t, k) ==
  IF t = << >> \/ k <= 0 THEN << >>
  ELSE IF t[1].n <= k THEN <<t[1]>> \o Slice(Tail(t), k - t[1].n)
  ELSE IF t[1].s = "~" THEN Fill(k)
  ELSE << [t[1] EXCEPT !.n = k] >>

(***************************************************************************)
(* Tool outputs: a str or a dict.                                          *)
(***************************************************************************)
Str(t) == [type |-> "str", text |-> t, keys |-> {}, size |-> 0]
Dict(ks, k) == [type |-> "dict", text |-> << >>, keys |-> ks, size |-> k]

IsStr(v) == v.type = "str"
IsDict(v) == v.type = "dict"

\* Python len(v)
PyLen(v) == IF IsDict(v) THEN v.size ELSE StrLen(v.text)

\* Python `lit in v`: substring test on a str, key test on a dict.
PyIn(lit, v) == IF IsDict(v) THEN lit \in v.keys ELSE In(lit, v.text)

\* f"{v}": a str as it is, a dict as its repr.
Format(v) ==
  IF IsDict(v) THEN << [s |-> "<repr of dict>", n |-> 2 + v.size, full |-> 2 + v.size] >>
  ELSE v.text

(***************************************************************************)
(* The result of a computation that may raise.                             *)
(***************************************************************************)
Ok(t) == [raised |-> FALSE, text |-> t]
Raised == [raised |-> TRUE, text |-> << >>]

\* a followed by b: the first exception ends the computation.
Then(a, b) == IF a.raised THEN a ELSE IF b.raised THEN b ELSE Ok(a.text \o b.text)

\* Python `v + "literal"` and `answer += v`: str + dict raises TypeError.
StrOf(v) == IF IsStr(v) THEN Ok(v.text) ELSE Raised

\* A sequence of computations one after the other.
RECURSIVE ThenAll(_)
ThenAll(parts) ==
  IF parts = << >> THEN Ok(<< >>) ELSE Then(parts[1], ThenAll(Tail(parts)))

(***************************************************************************)
(* Python str.split('\n') and str.strip().  Whitespace in the modelled     *)
(* texts is the blank " " and the newline "\n", each a segment of its own. *)
(***************************************************************************)
RECURSIVE SplitLines(_, _)
SplitLines(t, line) ==
  IF t = << >> THEN <<line>>
  ELSE IF t[1].s = "\n" THEN <<line>> \o SplitLines(Tail(t), << >>)
  ELSE SplitLines(Tail(t), Append(line, t[1]))

Split(t) == SplitLines(t, << >>)

IsSpace(seg) == seg.s \in {" ", "\n"}

RECURSIVE LStrip(_)
LStrip(t) == IF t # << >> /\ IsSpace(t[1]) THEN LStrip(Tail(t)) ELSE t

RECURSIVE RStrip(_)
RStrip(t) ==
  IF t # << >> /\ IsSpace(t[Len(t)]) THEN RStrip(SubSeq(t, 1, Len(t) - 1)) ELSE t

Strip(t) == RStrip(LStrip(t))

(***************************************************************************)
(* synthesize_answer, lines 25-42: collect all successful outputs.         *)
(***************************************************************************)
Put(outs, tool_name, output) ==
  [k \in DOMAIN outs \cup {tool_name} |->
     IF k = tool_name THEN output ELSE outs[k]]

StoreOutput_KeepsEmpty(outs, result) ==
  IF result.status = "success"
  THEN IF IsDict(result.output)
       THEN Put(outs, result.tool, result.output)
       ELSE IF ~StartsWith(result.output.text, "Error:")
            THEN Put(outs, result.tool, result.output)
            ELSE outs
  ELSE outs

StoreOutput_AnyStatus(outs, result) ==
  IF IsDict(result.output)
  THEN Put(outs, result.tool, result.output)
  ELSE IF result.output.text # << >> /\ ~StartsWith(result.output.text, "Error:")
       THEN Put(outs, result.tool, result.output)
       ELSE outs

\* One iteration of the loop of lines 27-42.
StoreOutput(outs, result) ==
  IF result.status = "success"
  THEN IF IsDict(result.output)
       THEN Put(outs, result.tool, result.output)
       ELSE IF result.output.text # << >> /\ ~StartsWith(result.output.text, "Error:")
            THEN Put(outs, result.tool, result.output)
            ELSE outs
  ELSE outs

RECURSIVE CollectFrom(_, _, _)
CollectFrom(results, i, outs) ==
  IF i > Len(results) THEN outs
  ELSE CollectFrom(results, i + 1, StoreOutput(outs, results[i]))

NoOutputs == [k \in {} |-> Str(<< >>)]

CollectOutputs(results) == CollectFrom(results, 1, NoOutputs)

(***************************************************************************)
(* The generated-file scan, lines 162-170 (the same loop as lines 94-102). *)
(***************************************************************************)
\* The kind of resource a str output announces, or "none".
FileKind(text) ==
  IF In("successfully created", Lower(text)) \/ In("generated", Lower(text))
  THEN IF In(".png", text) \/ In("Chart", text) THEN "chart"
       ELSE IF In(".pdf", text) \/ In("PDF", text) THEN "pdf"
       ELSE "none"
  ELSE "none"

\* files_generated after the loop; output.lower() raises on a dict.
RECURSIVE ScanFrom(_, _, _)
ScanFrom(results, i, files) ==
  IF i > Len(results) THEN [raised |-> FALSE, files |-> files]
  ELSE IF IsDict(results[i].output) THEN [raised |-> TRUE, files |-> files]
  ELSE LET kind == FileKind(results[i].output.text) IN
       ScanFrom(results, i + 1,
                IF kind = "none" THEN files
                ELSE Append(files, [kind |-> kind, info |-> results[i].output.text]))

RECURSIVE ScanSuccessful(_, _, _)
ScanSuccessful(results, i, files) ==
  IF i > Len(results) THEN [raised |-> FALSE, files |-> files]
  ELSE IF results[i].status # "success" THEN ScanSuccessful(results, i + 1, files)
  ELSE IF IsDict(results[i].output) THEN [raised |-> TRUE, files |-> files]
  ELSE LET kind == FileKind(results[i].output.text) IN
       ScanSuccessful(results, i + 1,
                      IF kind = "none" THEN files
                      ELSE Append(files, [kind |-> kind, info |-> results[i].output.text]))

files_generated_SuccessOnly(results) == ScanSuccessful(results, 1, << >>)

files_generated(results) == ScanFrom(results, 1, << >>)

\* Lines 178-186 (and 104-111): the Generated Resources section.
RECURSIVE ResourceLines(_)
ResourceLines(files) ==
  IF files = << >> THEN << >>
  ELSE (IF files[1].kind = "chart" THEN Lit("[chart-up] ") ELSE Lit("[page] "))
       \o files[1].info \o Lit("\n") \o ResourceLines(Tail(files))

GeneratedResources(files) ==
  IF files # << >>
  THEN Lit("## [chart] Generated Resources\n\n") \o ResourceLines(files) \o Lit("\n")
  ELSE << >>

(***************************************************************************)
(* Section synthesizers, lines 195-274.                                    *)
(***************************************************************************)
\* The bullet lines of lines 219-222: every line whose strip() starts with "**".
RECURSIVE PaperBullets(_)
PaperBullets(lines) ==
  IF lines = << >> THEN << >>
  ELSE (IF StartsWith(Strip(lines[1]), "**")
        THEN Lit("- ") \o Strip(lines[1]) \o Lit("\n")
        ELSE << >>) \o PaperBullets(Tail(lines))

_synthesize_arxiv_papers(query, arxiv_output) ==
  IF PyIn("Sample Paper", arxiv_output)
  THEN Ok(Lit("<demonstration-mode paragraph, before the query>") \o query
          \o Lit("<demonstration-mode paragraph, after the query>"))
  ELSE IF IsDict(arxiv_output) THEN Raised     \* dict has no split()
  ELSE Ok(Lit("Found relevant academic research on **") \o query \o Lit("**:\n\n")
          \o PaperBullets(Split(arxiv_output.text)))

\* The bullet lines of lines 238-241.
RECURSIVE NewsBullets(_)
NewsBullets(lines) ==
  IF lines = << >> THEN << >>
  ELSE (IF Contains(lines[1], <<"**", "Article">>) \/ Contains(lines[1], <<"**", "Title">>)
        THEN Lit("- ") \o Strip(lines[1]) \o Lit("\n")
        ELSE << >>) \o NewsBullets(Tail(lines))

_synthesize_news(query, news_output) ==
  IF PyIn("No recent news", news_output) \/ PyLen(news_output) < 100
  THEN Ok(Lit("No recent news articles were found specifically about ") \o query
          \o Lit(". This could mean:\n- The topic is highly specialized\n- No major news coverage in recent days\n- Try a broader search term for more results"))
  ELSE IF IsDict(news_output) THEN Raised      \* dict has no split()
  ELSE Ok(Lit("Recent news coverage on **") \o query \o Lit("**:\n\n")
          \o NewsBullets(Split(news_output.text)))

\* "\n".join(insights)
RECURSIVE JoinLines(_)
JoinLines(insights) ==
  IF insights = << >> THEN << >>
  ELSE IF Len(insights) = 1 THEN insights[1]
  ELSE insights[1] \o Lit("\n") \o JoinLines(Tail(insights))

_generate_key_insights(query, outs) ==
  LET insights ==
        (IF "wikipedia_search" \in DOMAIN outs
         THEN << Lit("[tick] **Foundational knowledge** about ") \o query
                 \o Lit(" has been retrieved from Wikipedia") >> ELSE << >>)
        \o (IF "arxiv_summarizer" \in DOMAIN outs
            THEN << Lit("[tick] **Academic research papers** have been identified and summarized") >>
            ELSE << >>)
        \o (IF "news_fetcher" \in DOMAIN outs
            THEN << Lit("[tick] **Current news** and recent developments have been analyzed") >>
            ELSE << >>)
        \o (IF "sentiment_analyzer" \in DOMAIN outs
            THEN << Lit("[tick] **Sentiment analysis** provides insights into public perception") >>
            ELSE << >>)
        \o (IF "qa_engine" \in DOMAIN outs
            THEN << Lit("[tick] **Direct answer** has been generated based on available knowledge") >>
            ELSE << >>)
  IN IF insights = << >>
     THEN Lit("Based on the available information, here's what we know about **") \o query
          \o Lit("**: The system has gathered relevant data from multiple sources to provide you with a comprehensive overview.")
     ELSE Lit("**Information Sources:**\n") \o JoinLines(insights)
          \o Lit("\n\nThis comprehensive analysis of **") \o query
          \o Lit("** combines information from multiple authoritative sources to give you a complete picture.")

(***************************************************************************)
(* synthesize_answer, strategy 1 (lines 50-116).                           *)
(***************************************************************************)
IsSubstantial_AtLeast300(qa_answer) ==
  IF PyLen(qa_answer) >= 300
  THEN IF IsDict(qa_answer) THEN [raised |-> TRUE, value |-> FALSE]
       ELSE [raised |-> FALSE, value |-> ~StartsWith(qa_answer.text, "I'm sorry")]
  ELSE [raised |-> FALSE, value |-> FALSE]

\* Line 55: is the QA output a substantial answer?  [raised, value]
IsSubstantial(qa_answer) ==
  IF PyLen(qa_answer) > 300
  THEN IF IsDict(qa_answer) THEN [raised |-> TRUE, value |-> FALSE]   \* dict has no startswith()
       ELSE [raised |-> FALSE, value |-> ~StartsWith(qa_answer.text, "I'm sorry")]
  ELSE [raised |-> FALSE, value |-> FALSE]

\* Lines 67-70.
ArxivSource(outs) ==
  IF "arxiv_summarizer" \in DOMAIN outs /\ PyLen(outs["arxiv_summarizer"]) > 50
  THEN ThenAll(<< Ok(Lit("### [microscope] Academic Papers Found\n\n")),
                  StrOf(outs["arxiv_summarizer"]), Ok(Lit("\n\n")) >>)
  ELSE Ok(<< >>)

WikipediaSource_AtLeast800(outs) ==
  IF "wikipedia_search" \in DOMAIN outs /\ PyLen(outs["wikipedia_search"]) > 50
  THEN LET wiki_text == outs["wikipedia_search"] IN
       IF PyLen(wiki_text) >= 800
       THEN ThenAll(<< Ok(Lit("### [book] Wikipedia Background\n\n")),
                       IF IsDict(wiki_text) THEN Raised
                       ELSE Ok(Slice(wiki_text.text, 800) \o Lit("...\n\n")),
                       Ok(Lit("<details><summary>Show full Wikipedia content</summary>\n\n")
                          \o Format(wiki_text) \o Lit("\n\n</details>\n\n")) >>)
       ELSE ThenAll(<< Ok(Lit("### [book] Wikipedia Background\n\n")),
                       StrOf(wiki_text), Ok(Lit("\n\n")) >>)
  ELSE Ok(<< >>)

\* Lines 73-82.
WikipediaSource(outs) ==
  IF "wikipedia_search" \in DOMAIN outs /\ PyLen(outs["wikipedia_search"]) > 50
  THEN LET wiki_text == outs["wikipedia_search"] IN
       IF PyLen(wiki_text) > 800
       THEN ThenAll(<< Ok(Lit("### [book] Wikipedia Background\n\n")),
                       IF IsDict(wiki_text) THEN Raised    \* a slice is no dict key
                       ELSE Ok(Slice(wiki_text.text, 800) \o Lit("...\n\n")),
                       Ok(Lit("<details><summary>Show full Wikipedia content</summary>\n\n")
                          \o Format(wiki_text) \o Lit("\n\n</details>\n\n")) >>)
       ELSE ThenAll(<< Ok(Lit("### [book] Wikipedia Background\n\n")),
                       StrOf(wiki_text), Ok(Lit("\n\n")) >>)
  ELSE Ok(<< >>)

\* Lines 85-88.
NewsSource(outs) ==
  IF "news_fetcher" \in DOMAIN outs /\ PyLen(outs["news_fetcher"]) > 50
  THEN ThenAll(<< Ok(Lit("### [newspaper] Recent News Articles\n\n")),
                  StrOf(outs["news_fetcher"]), Ok(Lit("\n\n")) >>)
  ELSE Ok(<< >>)

\* Lines 90-91: the sources, or the general-knowledge note when there is none.
FactualSources(outs) ==
  LET sources == ThenAll(<< ArxivSource(outs), WikipediaSource(outs), NewsSource(outs) >>)
  IN IF ~sources.raised /\ sources.text = << >>
     THEN Ok(Lit("*Note: This answer is based on the LLM's general knowledge. No specific research papers or news articles were retrieved for verification.*\n\n"))
     ELSE sources

\* The branch taken when the QA answer is substantial, lines 56-116.
QAPrimary(answer, execution_results_, outs) ==
  LET scan == files_generated(execution_results_) IN
  ThenAll(<< Ok(answer),
             StrOf(outs["qa_engine"]), Ok(Lit("\n\n")),
             Ok(Lit("---\n\n")),
             Ok(Lit("## [books] Factual Sources Used (Verify Claims Above)\n\n")),
             Ok(Lit("*The AI answer above is grounded in the following factual sources. Cross-reference to verify accuracy:*\n\n")),
             FactualSources(outs),
             IF scan.raised THEN Raised ELSE Ok(GeneratedResources(scan.files)),
             Ok(Lit("---\n\n")),
             Ok(Lit("[check] **Analysis Complete** | Comprehensive answer generated using AI with supporting research from multiple sources.\n")) >>)

(***************************************************************************)
(* synthesize_answer, strategy 2 (lines 117-192).                          *)
(***************************************************************************)
\* Lines 118-121.
QuickAnswer(outs) ==
  Lit("## [bulb] Quick Answer\n\n") \o Format(outs["qa_engine"]) \o Lit("\n\n")
  \o Lit("---\n\n")

\* Lines 127-133.
Background(outs) ==
  IF "wikipedia_search" \in DOMAIN outs /\ PyLen(outs["wikipedia_search"]) > 50
  THEN ThenAll(<< Ok(Lit("## [books] Background\n\n")),
                  StrOf(outs["wikipedia_search"]), Ok(Lit("\n\n")) >>)
  ELSE Ok(<< >>)

\* Lines 136-143.
AcademicResearch(query, outs) ==
  IF /\ "arxiv_summarizer" \in DOMAIN outs
     /\ PyIn("Found", outs["arxiv_summarizer"])
     /\ PyIn("papers", outs["arxiv_summarizer"])
  THEN ThenAll(<< Ok(Lit("## [microscope] Academic Research\n\n")),
                  _synthesize_arxiv_papers(query, outs["arxiv_summarizer"]),
                  Ok(Lit("\n\n")) >>)
  ELSE Ok(<< >>)

\* Lines 146-152.
RecentDevelopments(query, outs) ==
  IF "news_fetcher" \in DOMAIN outs /\ PyLen(outs["news_fetcher"]) > 50
  THEN ThenAll(<< Ok(Lit("## [newspaper] Recent Developments\n\n")),
                  _synthesize_news(query, outs["news_fetcher"]),
                  Ok(Lit("\n\n")) >>)
  ELSE Ok(<< >>)

\* Lines 155-160.
SentimentAnalysis(outs) ==
  IF "sentiment_analyzer" \in DOMAIN outs /\ PyLen(outs["sentiment_analyzer"]) > 20
  THEN ThenAll(<< Ok(Lit("## [thought] Sentiment Analysis\n\n")),
                  StrOf(outs["sentiment_analyzer"]), Ok(Lit("\n\n")) >>)
  ELSE Ok(<< >>)

KeyInsights_Always(query, outs, has_content) ==
  Lit("## [target] Key Insights\n\n") \o _generate_key_insights(query, outs)
  \o Lit("\n\n")

\* Lines 172-176: Key Insights, when a section set has_content.
KeyInsights(query, outs, has_content) ==
  IF has_content
  THEN Lit("## [target] Key Insights\n\n") \o _generate_key_insights(query, outs)
       \o Lit("\n\n")
  ELSE << >>

\* Lines 123-192.
MultiSection(answer, query, execution_results_, outs) ==
  LET sections == ThenAll(<< Background(outs), AcademicResearch(query, outs),
                             RecentDevelopments(query, outs), SentimentAnalysis(outs) >>)
      has_content == ~sections.raised /\ sections.text # << >>
      scan == files_generated(execution_results_)
  IN ThenAll(<< Ok(answer), sections,
                IF scan.raised THEN Raised ELSE Ok(<< >>),
                Ok(KeyInsights(query, outs, has_content)),
                Ok(GeneratedResources(scan.files)),
                Ok(Lit("---\n\n")),
                Ok(Lit("[check] **Analysis Complete** | Information gathered from multiple sources and synthesized for your query.\n")) >>)

(***************************************************************************)
(* synthesize_answer, lines 12-192.  The plan argument is never read.      *)
(***************************************************************************)
\* Line 45.
NoResultsNotice ==
  Lit("[x] **No results were generated.** The query could not be processed successfully.")

Title_NoQuery(query) == Lit("# [book] Answer to: ") \o Lit("\n\n")

\* Line 48.
Title(query) == Lit("# [book] Answer to: ") \o query \o Lit("\n\n")

synthesize_answer(query, execution_results_) ==
  LET outs == CollectOutputs(execution_results_)
      answer == Title(query)
  IN IF DOMAIN outs = {} THEN Ok(NoResultsNotice)
     ELSE IF "qa_engine" \in DOMAIN outs
     THEN LET substantial == IsSubstantial(outs["qa_engine"]) IN
          IF substantial.raised THEN Raised
          ELSE IF substantial.value THEN QAPrimary(answer, execution_results_, outs)
          ELSE MultiSection(answer \o QuickAnswer(outs), query, execution_results_, outs)
     ELSE MultiSection(answer, query, execution_results_, outs)

(***************************************************************************)
(* create_executive_summary, lines 277-310.                                *)
(***************************************************************************)
RECURSIVE successful_tools_Recognized(_)
successful_tools_Recognized(results) ==
  IF results = << >> THEN << >>
  ELSE (IF /\ results[1].status = "success"
           /\ results[1].tool \in {"qa_engine", "wikipedia_search", "arxiv_summarizer", "news_fetcher"}
        THEN <<results[1].tool>> ELSE << >>)
       \o successful_tools_Recognized(Tail(results))

\* Line 289: the tool of every record with status success, in order.
RECURSIVE successful_tools(_)
successful_tools(results) ==
  IF results = << >> THEN << >>
  ELSE (IF results[1].status = "success" THEN <<results[1].tool>> ELSE << >>)
       \o successful_tools(Tail(results))

\* `tool in successful_tools`
InList(tool, tools) == \E i \in 1..Len(tools) : tools[i] = tool

create_executive_summary(query, execution_results_) ==
  LET tools == successful_tools(execution_results_) IN
  IF tools = << >> THEN Lit("No results could be generated for this query.")
  ELSE Lit("Regarding **") \o query \o Lit("**: ")
       \o (IF InList("qa_engine", tools)
           THEN Lit("A direct answer has been provided based on available knowledge. ")
           ELSE << >>)
       \o (IF InList("wikipedia_search", tools)
           THEN Lit("Background information has been retrieved from Wikipedia. ")
           ELSE << >>)
       \o (IF InList("arxiv_summarizer", tools)
           THEN Lit("Academic research papers have been identified and summarized. ")
           ELSE << >>)
       \o (IF InList("news_fetcher", tools)
           THEN Lit("Recent news articles have been analyzed. ")
           ELSE << >>)
       \o Lit("Total of ") \o DecimalStr(Len(tools)) \o Lit(" information sources consulted.")

(***************************************************************************)
(* The /api/query handler, src/api.py lines 67-106: synthesize_answer,     *)
(* then create_executive_summary, then the response; an exception of       *)
(* either becomes HTTP 500.                                                *)
(***************************************************************************)
SynthesizeAnswer ==
  /\ pc = "request"
  /\ outputs' = CollectOutputs(execution_results)
  /\ LET r == synthesize_answer(user_query, execution_results) IN
       IF r.raised
       THEN pc' = "http_500" /\ final_answer' = << >>
       ELSE pc' = "synthesized" /\ final_answer' = r.text
  /\ UNCHANGED <<user_query, execution_results, summary>>

CreateExecutiveSummary ==
  /\ pc = "synthesized"
  /\ summary' = create_executive_summary(user_query, execution_results)
  /\ pc' = "responded"
  /\ UNCHANGED <<user_query, execution_results, outputs, final_answer>>

Next == SynthesizeAnswer \/ CreateExecutiveSummary

(***************************************************************************)
(* Inputs.  The orchestrator's results are a sequence of at most           *)
(* MaxResults records drawn from a set of records.                         *)
(***************************************************************************)
MaxResults == 3

\* A ToolResultRecord; every record carries its three keys.
Rec(tool, status, output) == [tool |-> tool, status |-> status, output |-> output]

ResultSeqs(records) == UNION {[1..k -> records] : k \in 0..MaxResults}

InitWith(queries, inputs) ==
  /\ user_query \in queries
  /\ execution_results \in inputs
  /\ pc = "request"
  /\ outputs = NoOutputs
  /\ final_answer = << >>
  /\ summary = << >>

Query1 == Lit("quantum computing")
Query2 == Lit("llm safety")

ErrorText == Lit("Error:") \o Lit(" ") \o Fill(20)

\* Records for the outcome filter: statuses, error prefixes, the empty str, a dict.
FilterRecords ==
  { Rec("qa_engine", "success", Str(Fill(60))),
    Rec("qa_engine", "success", Str(Fill(301))),
    Rec("qa_engine", "success", Str(ErrorText)),
    Rec("qa_engine", "success", Str(<< >>)),
    Rec("qa_engine", "failure", Str(Fill(60))),
    Rec("qa_engine", "success", Dict({}, 0)),
    Rec("unknown_tool_x", "failure", Dict({"result"}, 1)),
    Rec("unknown_tool_x", "success", Str(Fill(3) \o Lit("Error:") \o Fill(20))),
    Rec("unknown_tool_x", "failure", Str(ErrorText)) }

Init == InitWith({Query1, Query2}, ResultSeqs(FilterRecords))

Spec == Init /\ [][Next]_vars

\* Records for the QA-primary path: QA answers around the 300 threshold and a
\* refusal, Wikipedia outputs around the 50 and 800 thresholds, other sources.
SorryText == Lit("I'm sorry") \o Fill(300)
Wiki850 == Fill(795) \o Lit("generated") \o Fill(46)
ArxivText ==
  Lit("Found") \o Lit(" ") \o Fill(40) \o Lit(" ") \o Lit("papers") \o Lit("\n")
  \o Lit(" ") \o Lit("**") \o Fill(12) \o Lit("\n") \o Fill(9)

QARecords ==
  { Rec("qa_engine", "success", Str(Fill(301))),
    Rec("qa_engine", "success", Str(Fill(300))),
    Rec("qa_engine", "success", Str(SorryText)),
    Rec("wikipedia_search", "success", Str(Fill(50))),
    Rec("wikipedia_search", "success", Str(Fill(51))),
    Rec("wikipedia_search", "success", Str(Fill(800))),
    Rec("wikipedia_search", "success", Str(Fill(801))),
    Rec("wikipedia_search", "success", Str(Wiki850)),
    Rec("arxiv_summarizer", "success", Str(ArxivText)),
    Rec("news_fetcher", "success", Str(Fill(120))),
    Rec("sentiment_analyzer", "success", Str(Fill(30))) }

InitQA == InitWith({Query1}, ResultSeqs(QARecords))

SpecQA == InitQA /\ [][Next]_vars

\* Records for the generated-file scan: triggers in both cases, chart and
\* document hints, a trigger without a hint, hints without a trigger, hints
\* in the wrong case; failed and successful records.
ChartCreated == Lit("successfully created") \o Lit(" ") \o Lit("chart") \o Lit(".png")
ChartAndPdf == Lit("Generated") \o Lit(" ") \o Lit("PDF") \o Lit(" ") \o Lit("Chart")
PdfGenerated == Fill(5) \o Lit("generated") \o Lit(" ") \o Fill(6) \o Lit(".pdf")
NoHint == Lit("generated") \o Lit(" ") \o Fill(10)
NoTrigger == Lit("Chart") \o Lit(".png") \o Fill(4)
LowerHints == Lit("Successfully Created") \o Lit(" ") \o Lit("chart") \o Lit(" ") \o Lit("pdf")

ResourceRecords ==
  { Rec("chart_generator", "failure", Str(ChartCreated)),
    Rec("chart_generator", "success", Str(ChartCreated)),
    Rec("chart_generator", "failure", Str(ChartAndPdf)),
    Rec("report_generator", "failure", Str(PdfGenerated)),
    Rec("report_generator", "success", Str(NoHint)),
    Rec("chart_generator", "failure", Str(NoTrigger)),
    Rec("chart_generator", "failure", Str(LowerHints)),
    Rec("unknown_tool_x", "success", Str(Fill(60))),
    Rec("qa_engine", "success", Str(Fill(301))) }

InitRes == InitWith({Query1}, ResultSeqs(ResourceRecords))

SpecRes == InitRes /\ [][Next]_vars

\* Records for the multi-section path: a short QA answer and a refusal, and
\* for each section an output that passes its gate and one that does not.
NewsText ==
  Fill(90) \o Lit("\n") \o Lit("**") \o Lit("Title") \o Fill(20) \o Lit("\n")
  \o Fill(15) \o Lit("\n") \o Lit(" ") \o Lit("**") \o Lit("Article") \o Fill(8)
SentimentText == Fill(12) \o Lit("generated") \o Lit(" ") \o Lit("Chart")

MultiRecords ==
  { Rec("qa_engine", "success", Str(Fill(100))),
    Rec("qa_engine", "success", Str(SorryText)),
    Rec("wikipedia_search", "success", Str(Fill(600))),
    Rec("wikipedia_search", "success", Str(Fill(50))),
    Rec("arxiv_summarizer", "success", Str(ArxivText)),
    Rec("arxiv_summarizer", "success", Str(Fill(60))),
    Rec("news_fetcher", "success", Str(NewsText)),
    Rec("news_fetcher", "success", Str(Fill(50))),
    Rec("sentiment_analyzer", "success", Str(SentimentText)),
    Rec("sentiment_analyzer", "success", Str(Fill(20))),
    Rec("report_generator", "failure", Str(PdfGenerated)) }

\* One request whose records call for every section, in the reverse of the
\* order of the sections.
AllSections ==
  << Rec("report_generator", "failure", Str(PdfGenerated)),
     Rec("sentiment_analyzer", "success", Str(SentimentText)),
     Rec("news_fetcher", "success", Str(NewsText)),
     Rec("arxiv_summarizer", "success", Str(ArxivText)),
     Rec("wikipedia_search", "success", Str(Fill(600))),
     Rec("qa_engine", "success", Str(Fill(100))) >>

InitMulti == InitWith({Query1}, ResultSeqs(MultiRecords) \cup {AllSections})

SpecMulti == InitMulti /\ [][Next]_vars

\* Records for the executive summary: every recognized category and an
\* unrecognized tool, successful and failed.
SummaryTools ==
  {"qa_engine", "wikipedia_search", "arxiv_summarizer", "news_fetcher", "unknown_tool_x"}

SummaryRecords ==
  {Rec(tool, status, Str(Fill(60))) : tool \in SummaryTools, status \in {"success", "failure"}}

\* One request with every category, in the reverse of the order of the clauses.
AllCategories ==
  << Rec("news_fetcher", "success", Str(Fill(60))),
     Rec("unknown_tool_x", "success", Str(Fill(60))),
     Rec("arxiv_summarizer", "success", Str(Fill(60))),
     Rec("wikipedia_search", "success", Str(Fill(60))),
     Rec("qa_engine", "success", Str(Fill(60))),
     Rec("news_fetcher", "success", Str(Fill(60))) >>

InitSummary == InitWith({Query1, Query2}, ResultSeqs(SummaryRecords) \cup {AllCategories})

SpecSummary == InitSummary /\ [][Next]_vars

(***************************************************************************)
(* Properties.                                                             *)
(***************************************************************************)
Called == pc # "request"
Returned == pc \in {"synthesized", "responded"}

\* sub occurs in t as a contiguous piece.
HasSub(t, sub) ==
  \E i \in 0..(Len(t) - Len(sub)) : SubSeq(t, i + 1, i + Len(sub)) = sub

\* The segment s occurs in t, whole.
HasLit(t, s) == \E i \in 1..Len(t) : t[i].s = s /\ t[i].n = t[i].full

IsNotice(t) ==
  /\ Len(t) = 1
  /\ t[1].s = "[x] **No results were generated.** The query could not be processed successfully."
  /\ t[1].n = 79 /\ t[1].full = 79

StartsWithTitle(t, query) ==
  /\ Len(t) >= Len(query) + 2
  /\ t[1].s = "# [book] Answer to: " /\ t[1].n = t[1].full
  /\ SubSeq(t, 2, Len(query) + 1) = query
  /\ t[Len(query) + 2].s = "\n\n"

ErrorPrefixed(r) ==
  r.output.type = "str" /\ Len(r.output.text) > 0 /\ r.output.text[1].s = "Error:"
  /\ r.output.text[1].n = 6

\* The filter rule as the specification words it.
SpecRule(r) == r.status = "success" /\ ~ErrorPrefixed(r)

\* The rule with the empty str excluded as well.
Usable(r) ==
  /\ r.status = "success"
  /\ r.output.type = "str" => (r.output.text # << >> /\ ~ErrorPrefixed(r))

Records == {execution_results[i] : i \in 1..Len(execution_results)}

\* The last record of the tool that satisfies Usable.
LastUsable(tool) ==
  LET idx == {i \in 1..Len(execution_results) :
                execution_results[i].tool = tool /\ Usable(execution_results[i])}
  IN execution_results[CHOOSE i \in idx : \A j \in idx : j <= i]

\* C1 (as stated): every returned answer is non-empty and contains the
\* literal query string.
C1_ContainsQuery ==
  Returned => final_answer # << >> /\ HasSub(final_answer, user_query)

\* C1 (amended): every returned answer is non-empty; it carries the query,
\* in its title line, whenever some record passes the outcome filter, and is
\* exactly the fixed notice, the same for every query, otherwise.
C1_NonEmpty ==
  Returned =>
    /\ final_answer # << >> /\ StrLen(final_answer) > 0
    /\ (\E r \in Records : Usable(r)) =>
          StartsWithTitle(final_answer, user_query) /\ HasSub(final_answer, user_query)
    /\ ~(\E r \in Records : Usable(r)) => IsNotice(final_answer)

C1_Witness ==
  /\ pc = "synthesized"
  /\ \E r \in Records : r.status = "failure"
  /\ \E r \in Records : Usable(r)
  /\ HasSub(final_answer, user_query)

\* C2: synthesize_answer never raises on records whose output is a str or a
\* dict: the handler never ends in the exception branch.
C2_NeverRaises == pc # "http_500"

\* C3: when every record failed, or every successful record carries an
\* "Error:"-prefixed str, the call returns exactly the fixed notice; and the
\* notice is returned only by the early return on empty outputs.
C3_NoResults ==
  Called =>
    /\ ( \/ \A r \in Records : r.status = "failure"
         \/ \A r \in Records : r.status = "success" => ErrorPrefixed(r) )
       => Returned /\ IsNotice(final_answer)
    /\ (Returned /\ IsNotice(final_answer)) => DOMAIN outputs = {}

C3_Witness ==
  /\ pc = "synthesized"
  /\ \E r \in Records : r.status = "failure" /\ r.output.type = "dict"
  /\ \E r \in Records : r.status = "success" /\ ErrorPrefixed(r)
  /\ \A r \in Records : r.status = "success" => ErrorPrefixed(r)
  /\ IsNotice(final_answer)

\* C8 (as stated): a record is included in outputs iff its status is success
\* and, when its output is a str, the str does not start with "Error:"; the
\* notice is returned exactly when no record satisfies this rule.
C8_FilterRule ==
  Called =>
    /\ \A r \in Records : r.tool \in DOMAIN outputs
          <=> \E r2 \in Records : r2.tool = r.tool /\ SpecRule(r2)
    /\ Returned => (IsNotice(final_answer) <=> ~\E r \in Records : SpecRule(r))

\* C8 (amended): a record is included iff its status is success and, when
\* its output is a str, the str is non-empty and does not start with
\* "Error:"; the last such record of a tool is the one stored; the notice is
\* returned exactly when no record satisfies the rule, and any other returned
\* answer starts with the title line.
C8_FilterRuleNonEmpty ==
  Called =>
    /\ DOMAIN outputs = {r.tool : r \in {r2 \in Records : Usable(r2)}}
    /\ \A tool \in DOMAIN outputs : outputs[tool] = LastUsable(tool).output
    /\ Returned => (IsNotice(final_answer) <=> ~\E r \in Records : Usable(r))
    /\ Returned /\ (\E r \in Records : Usable(r))
         => StartsWithTitle(final_answer, user_query)

C8_Witness ==
  /\ pc = "synthesized"
  /\ \E r \in Records : r.status = "success" /\ r.output.type = "str" /\ r.output.text = << >>
  /\ \E r \in Records : r.status = "success" /\ ErrorPrefixed(r)
  /\ \E r \in Records : Usable(r)
  /\ StartsWithTitle(final_answer, user_query)

\* C10: the long answer is the "no results" notice if and only if the
\* executive summary is the "No results could be generated" sentence.
C10_ComposersAgree ==
  pc = "responded" =>
    (IsNotice(final_answer)
       <=> (Len(summary) = 1 /\ summary[1].s = "No results could be generated for this query."))

\* The QA output the filter kept is a str that line 55 accepts.
SubstantialQA ==
  /\ "qa_engine" \in DOMAIN outputs
  /\ outputs["qa_engine"].type = "str"
  /\ StrLen(outputs["qa_engine"].text) > 300
  /\ ~(outputs["qa_engine"].text[1].s = "I'm sorry" /\ outputs["qa_engine"].text[1].n = 9)

MultiSectionHeadings ==
  { "## [bulb] Quick Answer\n\n", "## [books] Background\n\n",
    "## [microscope] Academic Research\n\n", "## [newspaper] Recent Developments\n\n",
    "## [thought] Sentiment Analysis\n\n", "## [target] Key Insights\n\n" }

FactualSourcesHeading == "## [books] Factual Sources Used (Verify Claims Above)\n\n"

Seg(s, k) == [s |-> s, n |-> k, full |-> k]

\* C4: a QA text longer than 300 that does not start with "I'm sorry" is the
\* answer: it appears verbatim right after the title, the Factual Sources
\* section follows, and no section of the multi-section path appears; any
\* other QA text is shown under Quick Answer and Factual Sources is absent.
C4_QAPrimary ==
  (Returned /\ "qa_engine" \in DOMAIN outputs /\ outputs["qa_engine"].type = "str") =>
    LET qa == outputs["qa_engine"].text IN
    IF SubstantialQA
    THEN /\ HasSub(final_answer, <<Seg("\n\n", 2)>> \o qa \o <<Seg("\n\n", 2), Seg("---\n\n", 5)>>)
         /\ HasLit(final_answer, FactualSourcesHeading)
         /\ \A h \in MultiSectionHeadings : ~HasLit(final_answer, h)
    ELSE /\ HasSub(final_answer, <<Seg("## [bulb] Quick Answer\n\n", 19)>> \o qa \o <<Seg("\n\n", 2)>>)
         /\ ~HasLit(final_answer, FactualSourcesHeading)

C4_Witness ==
  /\ pc = "synthesized"
  /\ SubstantialQA
  /\ {"wikipedia_search", "sentiment_analyzer"} \subseteq DOMAIN outputs
  /\ HasLit(final_answer, FactualSourcesHeading)

\* p holds the first characters of t.
IsCharPrefix(p, t) ==
  /\ p # << >> /\ Len(p) <= Len(t)
  /\ \A i \in 1..(Len(p) - 1) : p[i] = t[i]
  /\ p[Len(p)].s = t[Len(p)].s /\ p[Len(p)].n <= t[Len(p)].n

WikiHeading == "### [book] Wikipedia Background\n\n"

Count(t, s) == Cardinality({i \in 1..Len(t) : t[i].s = s})

HasAny(text, lits) == \E i \in 1..Len(text) : text[i].s \in lits /\ text[i].n = text[i].full

Announced(text) ==
  LET trigger == HasAny(text, {"successfully created", "Successfully Created",
                               "generated", "Generated"})
  IN IF trigger /\ HasAny(text, {".png", "Chart"}) THEN "chart"
     ELSE IF trigger /\ HasAny(text, {".pdf", "PDF"}) THEN "pdf"
     ELSE "none"

\* The entry lines the records call for, in the order of the records.
RECURSIVE ExpectedEntries(_)
ExpectedEntries(results) ==
  IF results = << >> THEN << >>
  ELSE LET text == results[1].output.text
           kind == Announced(text)
       IN (IF kind = "chart" THEN <<Seg("[chart-up] ", 2)>> \o text \o <<Seg("\n", 1)>>
           ELSE IF kind = "pdf" THEN <<Seg("[page] ", 2)>> \o text \o <<Seg("\n", 1)>>
           ELSE << >>)
          \o ExpectedEntries(Tail(results))

ResourcesHeading == "## [chart] Generated Resources\n\n"

\* The Generated Resources section of the answer holds exactly the expected entries.
ResourcesListed ==
  LET entries == ExpectedEntries(execution_results) IN
  /\ entries # << >> =>
       HasSub(final_answer, <<Seg(ResourcesHeading, 26)>> \o entries
                            \o <<Seg("\n", 1), Seg("---\n\n", 5)>>)
  /\ entries = << >> => ~HasLit(final_answer, ResourcesHeading)
  /\ Count(final_answer, ResourcesHeading) <= 1

\* C5 (as stated): for every results sequence each record, successful or
\* failed, whose output announces a chart or a document contributes one entry
\* to the Generated Resources section of the returned answer.
C5_ScanEveryRecord == Returned => ResourcesListed

\* C5 (amended): the same, for every returned answer of a call in which at
\* least one record passed the outcome filter; when none passed, the answer is
\* the notice and lists no resource.
C5_ScanWhenOutputs ==
  Returned =>
    /\ DOMAIN outputs # {} => ResourcesListed
    /\ DOMAIN outputs = {} => ~HasLit(final_answer, ResourcesHeading)

C5_Witness ==
  /\ pc = "synthesized"
  /\ \E r \in Records : r.status = "failure" /\ Announced(r.output.text) = "chart"
  /\ \E r \in Records : r.status = "failure" /\ Announced(r.output.text) = "pdf"
  /\ HasLit(final_answer, ResourcesHeading)
  /\ HasLit(final_answer, "[page] ")

ContentHeadings ==
  { "## [books] Background\n\n", "## [microscope] Academic Research\n\n",
    "## [newspaper] Recent Developments\n\n", "## [thought] Sentiment Analysis\n\n" }

KeyInsightsHeading == "## [target] Key Insights\n\n"

MultiFooter ==
  "[check] **Analysis Complete** | Information gathered from multiple sources and synthesized for your query.\n"

\* The parts of a multi-section answer, in their order.
SectionOrder ==
  << "# [book] Answer to: ", "## [bulb] Quick Answer\n\n", "## [books] Background\n\n",
     "## [microscope] Academic Research\n\n", "## [newspaper] Recent Developments\n\n",
     "## [thought] Sentiment Analysis\n\n", KeyInsightsHeading, ResourcesHeading, MultiFooter >>

Positions(t, s) == {i \in 1..Len(t) : t[i].s = s}

OnMultiSectionPath == Returned /\ DOMAIN outputs # {} /\ ~SubstantialQA

\* C9: on the multi-section path Key Insights appears iff one of the four
\* content sections does (Quick Answer alone does not bring it); the parts
\* appear at most once each, in the fixed order, starting with the title and
\* ending with the footer; a single Wikipedia output of 600 characters gives
\* Background with the full text, Key Insights naming Wikipedia, the footer,
\* and no Factual Sources section.
C9_MultiSection ==
  OnMultiSectionPath =>
    /\ HasLit(final_answer, KeyInsightsHeading)
         <=> \E h \in ContentHeadings : HasLit(final_answer, h)
    /\ \A i \in 1..Len(SectionOrder) : Cardinality(Positions(final_answer, SectionOrder[i])) <= 1
    /\ \A i, j \in 1..Len(SectionOrder) :
         i < j => \A a \in Positions(final_answer, SectionOrder[i]) :
                    \A b \in Positions(final_answer, SectionOrder[j]) : a < b
    /\ Positions(final_answer, "# [book] Answer to: ") = {1}
    /\ Positions(final_answer, MultiFooter) = {Len(final_answer)}
    /\ ~HasLit(final_answer, FactualSourcesHeading)
    /\ execution_results = << Rec("wikipedia_search", "success", Str(Fill(600))) >> =>
         /\ HasSub(final_answer, <<Seg("## [books] Background\n\n", 17), Seg("~", 600), Seg("\n\n", 2),
                                   Seg(KeyInsightsHeading, 19)>>)
         /\ HasSub(final_answer, <<Seg("[tick] **Foundational knowledge** about ", 35)>> \o user_query
                                 \o <<Seg(" has been retrieved from Wikipedia", 34)>>)

C9_Witness ==
  /\ pc = "synthesized"
  /\ OnMultiSectionPath
  /\ \A i \in 1..Len(SectionOrder) : HasLit(final_answer, SectionOrder[i])

\* A second witness of C9's case: Quick Answer without Key Insights.
C9_QuickAnswerOnly ==
  /\ pc = "synthesized"
  /\ HasLit(final_answer, "## [bulb] Quick Answer\n\n")
  /\ ~HasLit(final_answer, KeyInsightsHeading)

SuccessCount == Cardinality({i \in 1..Len(execution_results) : execution_results[i].status = "success"})

Succeeded(tool) == \E r \in Records : r.tool = tool /\ r.status = "success"

\* The canned clauses, in their order, with the tool of each.
Clauses ==
  << [tool |-> "qa_engine", text |-> "A direct answer has been provided based on available knowledge. "],
     [tool |-> "wikipedia_search", text |-> "Background information has been retrieved from Wikipedia. "],
     [tool |-> "arxiv_summarizer", text |-> "Academic research papers have been identified and summarized. "],
     [tool |-> "news_fetcher", text |-> "Recent news articles have been analyzed. "] >>

\* C6: with a successful record the summary holds one clause per recognized
\* category that succeeded, at most once each and in the order QA, Wikipedia,
\* ArXiv, news, then the total, which is the number of successful records
\* (unrecognized tools included); with none it is the fixed sentence.
C6_Summary ==
  pc = "responded" =>
    IF SuccessCount = 0
    THEN summary = <<Seg("No results could be generated for this query.", 45)>>
    ELSE /\ SubSeq(summary, 1, Len(user_query) + 2)
              = <<Seg("Regarding **", 12)>> \o user_query \o <<Seg("**: ", 4)>>
         /\ \A c \in 1..4 :
              /\ Cardinality(Positions(summary, Clauses[c].text)) <= 1
              /\ HasLit(summary, Clauses[c].text) <=> Succeeded(Clauses[c].tool)
         /\ \A c, d \in 1..4 :
              c < d => \A a \in Positions(summary, Clauses[c].text) :
                         \A b \in Positions(summary, Clauses[d].text) : a < b
         /\ Len(summary) = Len(user_query) + 2
                           + Cardinality({c \in 1..4 : Succeeded(Clauses[c].tool)}) + 3
         /\ SubSeq(summary, Len(summary) - 2, Len(summary))
              = << Seg("Total of ", 9),
                   [s |-> ToString(SuccessCount), n |-> 1, full |-> 1],
                   Seg(" information sources consulted.", 31) >>

C6_Witness ==
  /\ pc = "responded"
  /\ Len(execution_results) = 3
  /\ {r.tool : r \in Records} = {"qa_engine", "unknown_tool_x", "wikipedia_search"}
  /\ \A r \in Records : r.status = "success"
  /\ HasLit(summary, "3")

\* A second witness of C6's case: every category, given in reverse order.
C6_AllCategories ==
  /\ pc = "responded"
  /\ \A c \in 1..4 : HasLit(summary, Clauses[c].text)
  /\ execution_results[1].tool = "news_fetcher"
  /\ HasLit(summary, "6")

====
